---- MODULE Spec2Model ----
(***************************************************************************)
(* DataDownloader (src/download.py): the region cache (get_list), the      *)
(* region file loader (parse_region_data) and its row decoding.            *)
(*                                                                         *)
(* Text is a sequence of one-character strings.  A source file is a        *)
(* sequence of physical lines; a physical line is the record               *)
(* [fields, open]: the fields csv.reader delimits on it, and whether the   *)
(* line ends inside a quoted field that is still open.                     *)
(***************************************************************************)
EXTENDS Integers, Sequences, FiniteSets, TLC

(***************************************************************************)
(* Schema: self.headers and data_types.                                    *)
(***************************************************************************)
U(n) == [k |-> "U", n |-> n]
I(n) == [k |-> "i", n |-> n]
F8 == [k |-> "f", n |-> 8]
M8D == [k |-> "M", n |-> 8]

data_types ==
  << U(3), I(1), I(1), I(8), I(1), I(4), M8D, I(1), I(1), I(1), I(1), I(1),
     I(1), I(1), I(2), I(2), I(2), I(2), I(4), I(1), I(1), I(1), I(1), I(1),
     I(1), I(1), I(1), I(1), I(1), I(1), I(1), I(2), I(1), I(1), I(1), I(1),
     I(2), I(1), I(1), I(1), I(1), I(1), I(1), I(4), I(1), I(1), I(1), F8,
     F8, F8, F8, F8, F8, U(50), U(50), I(4), U(30), U(10), I(4), U(30),
     U(10), U(10), I(4), I(4), U(30), I(1) >>

headers ==
  << "region", "hour", "minute", "id", "road_type", "road_number", "date",
     "weekday", "accident_type", "moving_vehicles_collision_type",
     "solid_collision_type", "accident_character", "accident_fault",
     "alcohol_drugs", "accident_cause", "killed", "seriously_injured",
     "slightly_injured", "total_damage", "surface_type", "surface_condition",
     "road_condition", "wind_conditions", "visibility", "viewing_conditions",
     "road_division", "accident_location_on_the_road", "trafic_management",
     "driving_priority", "place_specifics", "directional_conditions",
     "vehicles", "place", "cross_road_type", "vehicle_type", "brand",
     "production_year", "vehicle_characteristics", "skid",
     "vehicle_after_accident", "material_leaks", "rescued_people",
     "vehicle_direction", "vehicle_damage", "driver_category",
     "driver_status", "external_driver_affects", "a", "b", "X_coordinate",
     "Y_coordinate", "f", "g", "h", "i", "j", "k", "l", "n", "o", "p", "q",
     "r", "s", "t", "accident_location" >>

\* len(arrays): one array per entry of data_types
NCols == Len(data_types)

\* F(e) with e evaluated once, to a value in explicit form
Once(e, F(_)) == CHOOSE r \in {F(v) : v \in {x \in {e} : x = x}} : TRUE

(***************************************************************************)
(* Python values assigned into an array: a str or the int -1.              *)
(***************************************************************************)
PyStr(s) == [t |-> "str", s |-> s, i |-> 0]
PyInt(i) == [t |-> "int", s |-> <<>>, i |-> i]

Failed == [ok |-> FALSE, v |-> 0]
Ok(v) == [ok |-> TRUE, v |-> v]

DigitChars == {"0", "1", "2", "3", "4", "5", "6", "7", "8", "9"}

DigitVal(c) ==
  CASE c = "0" -> 0 [] c = "1" -> 1 [] c = "2" -> 2 [] c = "3" -> 3
    [] c = "4" -> 4 [] c = "5" -> 5 [] c = "6" -> 6 [] c = "7" -> 7
    [] c = "8" -> 8 [] c = "9" -> 9

AllDigits(s) == Len(s) > 0 /\ \A i \in 1..Len(s) : s[i] \in DigitChars

RECURSIVE NatVal(_)
NatVal(s) ==
  IF s = <<>> THEN 0
  ELSE 10 * NatVal(SubSeq(s, 1, Len(s) - 1)) + DigitVal(s[Len(s)])

\* str.strip() as int() and float() apply it, over the blank character
RECURSIVE Strip(_)
Strip(s) ==
  IF s = <<>> THEN s
  ELSE IF s[1] = " " THEN Strip(Tail(s))
  ELSE IF s[Len(s)] = " " THEN Strip(SubSeq(s, 1, Len(s) - 1))
  ELSE s

\* the sign and the unsigned rest of a numeric literal
SignOf(s) == IF s # <<>> /\ s[1] = "-" THEN -1 ELSE 1
Unsigned(s) == IF s # <<>> /\ s[1] \in {"-", "+"} THEN Tail(s) ELSE s

\* int(str): blanks stripped, an optional sign, decimal digits
IntLiteral(s) ==
  LET t == Strip(s)
      b == Unsigned(t)
  IN  IF AllDigits(b) THEN Ok(SignOf(t) * NatVal(b)) ELSE Failed

\* largest value of a signed integer of n bytes (the model holds values
\* below 2^31, so the 8-byte width never overflows in it)
IntMax(n) == CASE n = 1 -> 127 [] n = 2 -> 32767 [] OTHER -> 2147483647

IntFits(n, v) == v >= -IntMax(n) - 1 /\ v <= IntMax(n)

\* position of the first "." of s, or 0
DotAt(s) ==
  IF \E i \in 1..Len(s) : s[i] = "."
  THEN CHOOSE i \in 1..Len(s) : s[i] = "." /\ \A j \in 1..(i - 1) : s[j] # "."
  ELSE 0

\* a decimal fraction mant / 10^scale with no trailing zero
RECURSIVE Normal(_, _)
Normal(mant, scale) ==
  IF scale > 0 /\ mant % 10 = 0 THEN Normal(mant \div 10, scale - 1)
  ELSE <<mant, scale>>

\* float(str): blanks stripped, an optional sign, digits with an optional
\* decimal point
FloatLiteral(s) ==
  LET t == Strip(s)
      b == Unsigned(t)
      d == DotAt(b)
      ip == IF d = 0 THEN b ELSE SubSeq(b, 1, d - 1)
      fp == IF d = 0 THEN <<>> ELSE SubSeq(b, d + 1, Len(b))
      digits == ip \o fp
  IN  IF AllDigits(digits)
      THEN LET n == Normal(NatVal(digits), Len(fp))
           IN  Ok(<<SignOf(t) * n[1], n[2]>>)
      ELSE Failed

DaysIn(y, m) ==
  IF m \in {4, 6, 9, 11} THEN 30
  ELSE IF m = 2
       THEN (IF (y % 4 = 0 /\ y % 100 # 0) \/ y % 400 = 0 THEN 29 ELSE 28)
       ELSE 31

\* numpy datetime64[D] from an ISO date string: YYYY, YYYY-MM or YYYY-MM-DD
DateLiteral(s) ==
  LET n == Len(s)
      y == SubSeq(s, 1, 4)
      m == SubSeq(s, 6, 7)
      d == SubSeq(s, 9, 10)
      shape == /\ n \in {4, 7, 10}
               /\ AllDigits(y)
               /\ n >= 7 => (s[5] = "-" /\ AllDigits(m))
               /\ n = 10 => (s[8] = "-" /\ AllDigits(d))
      mv == IF n >= 7 THEN NatVal(m) ELSE 1
      dv == IF n = 10 THEN NatVal(d) ELSE 1
  IN  IF shape /\ mv \in 1..12 /\ dv \in 1..DaysIn(NatVal(y), mv)
      THEN Ok(<<NatVal(y), mv, dv>>)
      ELSE Failed

Take(s, n) == SubSeq(s, 1, IF Len(s) < n THEN Len(s) ELSE n)

\* what the int -1 becomes in an array of type ty
Sentinel(ty) ==
  CASE ty.k = "i" -> -1
    [] ty.k = "f" -> <<-1, 0>>
    [] ty.k = "U" -> Take(<<"-", "1">>, ty.n)
    [] ty.k = "M" -> <<1969, 12, 31>>

\* arrays[col][line] = item: the value stored, or the exception numpy raises
Coerce(ty, item) ==
  IF item.t = "int" THEN Ok(Sentinel(ty))
  ELSE CASE ty.k = "U" -> Ok(Take(item.s, ty.n))
         [] ty.k = "i" ->
              LET r == IntLiteral(item.s)
              IN  IF r.ok /\ IntFits(ty.n, r.v) THEN r ELSE Failed
         [] ty.k = "f" -> FloatLiteral(item.s)
         [] ty.k = "M" -> DateLiteral(item.s)

(***************************************************************************)
(* parse_region_data: discovery, the sizing pass, the decode pass.         *)
(***************************************************************************)

\* all_regions = [i for i in self.cache_data]: the keys of the dict, in the
\* order of its literal
all_regions ==
  << "PHA", "STC", "JHC", "PLK", "ULK", "HKK", "JHM", "MSK", "OLK", "ZLK",
     "VYS", "PAK", "LBK", "KVK" >>

Known == {all_regions[i] : i \in 1..Len(all_regions)}

\* a region code as text
RegionText(r) ==
  CASE r = "PHA" -> <<"P", "H", "A">> [] r = "STC" -> <<"S", "T", "C">>
    [] r = "JHC" -> <<"J", "H", "C">> [] r = "PLK" -> <<"P", "L", "K">>
    [] r = "ULK" -> <<"U", "L", "K">> [] r = "HKK" -> <<"H", "K", "K">>
    [] r = "JHM" -> <<"J", "H", "M">> [] r = "MSK" -> <<"M", "S", "K">>
    [] r = "OLK" -> <<"O", "L", "K">> [] r = "ZLK" -> <<"Z", "L", "K">>
    [] r = "VYS" -> <<"V", "Y", "S">> [] r = "PAK" -> <<"P", "A", "K">>
    [] r = "LBK" -> <<"L", "B", "K">> [] r = "KVK" -> <<"K", "V", "K">>

\* csv.reader(csvfile, delimiter=';'): one record per physical line, except
\* that a line ending inside an open quoted field is continued by the next
\* line (the line break becomes part of the field)
JoinLines(a, b) ==
  LET n == Len(a.fields)
      cont == a.fields[n] \o <<"\n">> \o
              (IF b.fields = <<>> THEN <<>> ELSE b.fields[1])
  IN  [fields |-> SubSeq(a.fields, 1, n - 1) \o <<cont>> \o
                  (IF b.fields = <<>> THEN <<>> ELSE Tail(b.fields)),
       open |-> b.open]

RECURSIVE csv_reader(_)
csv_reader(ls) ==
  IF ls = <<>> THEN <<>>
  ELSE IF ls[1].open /\ Len(ls) > 1
       THEN Once(<<JoinLines(ls[1], ls[2])>> \o SubSeq(ls, 3, Len(ls)),
                 LAMBDA joined : csv_reader(joined))
       ELSE <<ls[1].fields>> \o csv_reader(Tail(ls))

\* sum(1 for _ in csvfile): the physical lines of one file
CountLines(file) == Len(file)

\* item.replace(',', '.')
ReplaceComma(s) == [i \in 1..Len(s) |-> IF s[i] = "," THEN "." ELSE s[i]]

\* the body of "for col, item in enumerate(row, start=3)" for one item:
\* the value that ends in arrays[col][line]
StoreCell(ty, item) ==
  LET it == IF item = <<>> \/ item = <<"X", "X">> THEN PyInt(-1)
            ELSE PyStr(ReplaceComma(item))
      c == Coerce(ty, it)
  IN  IF c.ok THEN c.v ELSE Coerce(ty, PyInt(-1)).v

\* time[:2] with the check for hours, time[2:] with the check for minutes
HourOf(time) ==
  IF Take(time, 2) = <<"2", "5">> THEN PyInt(-1) ELSE PyStr(Take(time, 2))

\* a minute part that follows the hour part's check as well
MinuteTiedToHour(time) ==
  LET m == SubSeq(time, 3, Len(time))
  IN  IF Take(time, 2) = <<"2", "5">> \/ m = <<"6", "0">> THEN PyInt(-1)
      ELSE PyStr(m)

MinuteOf(time) ==
  LET m == SubSeq(time, 3, Len(time))
  IN  IF m = <<"6", "0">> THEN PyInt(-1) ELSE PyStr(m)

\* row.pop(4): the field before the time field is dropped instead
PopFifth(row) == SubSeq(row, 1, 4) \o SubSeq(row, 6, Len(row))

\* row.pop(5): the remaining fields
PopTime(row) == SubSeq(row, 1, 5) \o SubSeq(row, 7, Len(row))

\* the row index a record is written at, and the counter after it
RowIndex(line) == line
NextLine(line) == line + 1

\* one iteration of "for row in reader": st is [ok, line, arrays]; a
\* record with no time field, a time that is no number, or more fields
\* than columns raises
DecodeRow(st, region, row) ==
  IF Len(row) < 6 THEN [st EXCEPT !.ok = FALSE]
  ELSE
    LET time == row[6]
        rest == PopTime(row)
        h == Coerce(data_types[2], HourOf(time))
        m == Coerce(data_types[3], MinuteOf(time))
        at == RowIndex(st.line) + 1
    IN  IF ~h.ok \/ ~m.ok \/ Len(rest) + 3 > NCols
        THEN [st EXCEPT !.ok = FALSE]
        ELSE [ok |-> TRUE,
              line |-> NextLine(st.line),
              arrays |->
                [c \in 1..NCols |->
                  [st.arrays[c] EXCEPT ![at] =
                    IF c = 1 THEN Take(RegionText(region), data_types[1].n)
                    ELSE IF c = 2 THEN h.v
                    ELSE IF c = 3 THEN m.v
                    ELSE IF c - 3 <= Len(rest)
                         THEN StoreCell(data_types[c], rest[c - 3])
                         ELSE @]]]

RECURSIVE DecodeRows(_, _, _)
DecodeRows(st, region, rows) ==
  IF rows = <<>> \/ ~st.ok THEN st
  ELSE Once(DecodeRow(st, region, rows[1]),
            LAMBDA s : DecodeRows(s, region, Tail(rows)))

\* "for data_file in data_files" of the decode pass; line is not reset
RECURSIVE DecodeFiles(_, _, _)
DecodeFiles(st, region, files) ==
  IF files = <<>> \/ ~st.ok THEN st
  ELSE Once(csv_reader(files[1]),
            LAMBDA rows :
              Once(DecodeRows(st, region, rows),
                   LAMBDA s : DecodeFiles(s, region, Tail(files))))

\* the sizing pass: lines summed over the files
RECURSIVE SizeFiles(_)
SizeFiles(files) ==
  IF files = <<>> THEN 0 ELSE CountLines(files[1]) + SizeFiles(Tail(files))

\* np.empty(lines, dtype): the cells hold whatever the allocator left; g
\* selects among the values it may have left
Zero(ty) ==
  CASE ty.k = "i" -> 0
    [] ty.k = "f" -> <<0, 0>>
    [] ty.k = "U" -> <<>>
    [] ty.k = "M" -> <<1970, 1, 1>>

np_empty(lines, ty, g) ==
  [i \in 1..lines |-> IF g = 0 THEN Zero(ty) ELSE Sentinel(ty)]

\* a byte cp1250 does not define: reading the file raises
BadByte == "0x81"
Readable(file) ==
  \A i \in 1..Len(file) : \A j \in 1..Len(file[i].fields) :
    \A k \in 1..Len(file[i].fields[j]) : file[i].fields[j][k] # BadByte

\* lines 202-254 of parse_region_data on the files listed: the sizing
\* pass, the allocation, the decode pass: [ok, arrays, lines, line]
load_files(region, files, g) ==
  LET lines == SizeFiles(files)
      arrays == [c \in 1..NCols |-> np_empty(lines, data_types[c], g)]
  IN  Once([ok |-> TRUE, line |-> 0, arrays |-> arrays],
        LAMBDA st0 :
          Once(DecodeFiles(st0, region, files),
            LAMBDA st :
              IF (\E i \in 1..Len(files) : ~Readable(files[i])) \/ ~st.ok
              THEN [ok |-> FALSE, arrays |-> <<>>, lines |-> 0, line |-> 0]
              ELSE [ok |-> TRUE, arrays |-> st.arrays, lines |-> lines,
                    line |-> st.line]))

(***************************************************************************)
(* Source text used as input: raw rows, lines and files.                   *)
(***************************************************************************)

\* the number of raw fields that fills every column: the time field plus
\* one field for each of the columns from 3 on
NRaw == NCols - 2

\* the column (as an index of data_types) the j-th raw field lands in
ColOf(j) == IF j < 6 THEN j + 3 ELSE j + 2

\* a well-formed field for a column of type ty
GoodField(ty) ==
  CASE ty.k = "i" -> <<"1">>
    [] ty.k = "f" -> <<"1", "2", ",", "5">>
    [] ty.k = "U" -> <<"a", "b">>
    [] ty.k = "M" -> <<"2", "0", "1", "6", "-", "0", "1", "-", "0", "2">>

\* a raw row of n fields with the given time field
RawRowN(time, n) ==
  [j \in 1..n |->
    IF j = 6 THEN time
    ELSE IF j <= NRaw THEN GoodField(data_types[ColOf(j)])
    ELSE <<"1">>]

RawRow(time) == RawRowN(time, NRaw)

\* row with its j-th raw field replaced
WithField(row, j, f) == [row EXCEPT ![j] = f]

\* a physical line holding one whole record / ending inside an open quote
Ln(row) == [fields |-> row, open |-> FALSE]
OpenLn(row) == [fields |-> row, open |-> TRUE]

T1230 == <<"1", "2", "3", "0">>
T2530 == <<"2", "5", "3", "0">>
T1260 == <<"1", "2", "6", "0">>
T2560 == <<"2", "5", "6", "0">>
T0905 == <<"0", "9", "0", "5">>
T2460 == <<"2", "4", "6", "0">>
TBadHour == <<"a", "b", "1", "2">>
TBadMinute == <<"1", "2", "x", "y">>
TShort == <<"7">>

(***************************************************************************)
(* Bounds and input sets.                                                  *)
(***************************************************************************)
MaxFiles == 2
MaxLines == 3

Years == 1..MaxFiles

\* a region directory: absent, empty, or holding the files of fileseq as
\* the years 1, 2, ...
NoDir == [exists |-> FALSE, files |-> <<>>]
EmptyDir == [exists |-> TRUE, files |-> <<>>]
DirOf(fileseq) == [exists |-> TRUE, files |-> fileseq]

\* what np.empty may have left in a cell: zero bytes or the bytes of -1
Garbage == {0, 1}

Good1230 == Ln(RawRow(T1230))
Good2530 == Ln(RawRow(T2530))
\* a line ending inside a quoted field, and a line that closes it
OpenA == OpenLn(RawRowN(T1260, NRaw - 4))
TailB == Ln(RawRowN(T1230, 5))

CoreLines == {Good1230, Good2530, OpenA, TailB}

\* single lines: times, cells, field counts
TimeLines ==
  {Ln(RawRow(t)) : t \in {T1260, T2560, T0905, T2460, TBadHour, TBadMinute,
                           TShort, <<>>}}

CellLines ==
  {Ln(WithField(RawRow(T1230), 2, f)) :
     f \in {<<"X", "X">>, <<>>, <<"a", "b", "c">>, <<"3", "0", "0">>,
             <<" ", "7">>}}
  \cup {Ln(WithField(RawRow(T0905), 4, <<"2", "0", "1", "6", "-", "1", "3", "-", "0", "1">>)),
        Ln(WithField(RawRow(T0905), 46, <<"1", ",", "2", ",", "3">>)),
        Ln(WithField(RawRow(T0905), 46, <<"X", "X">>)),
        Ln(WithField(RawRow(T0905), 52, <<"X", "X">>)),
        Ln(WithField(RawRow(T0905), 4, <<>>)),
        Ln(WithField(RawRow(T0905), 3, <<BadByte>>))}

CountLinesPool ==
  {Ln(RawRowN(T1230, n)) : n \in {0, 5, 6, NRaw - 1, NRaw + 1}}

SingleLines == TimeLines \cup CellLines \cup CountLinesPool

\* sequences over S of length at most n
SeqsUpTo(S, n) == UNION {[1..k -> S] : k \in 0..n}

FilePool == SeqsUpTo(CoreLines, MaxLines) \cup {<<l>> : l \in SingleLines}

CoreFiles == {<<Good1230>>, <<Good2530, Good1230>>, <<OpenA, TailB>>}

DirPool ==
  {NoDir} \cup {DirOf(<<f>>) : f \in FilePool}
          \cup {DirOf(q) : q \in SeqsUpTo(CoreFiles, MaxFiles)}

\* the directories a region's sources are edited to between calls
SourceChoices ==
  {NoDir, EmptyDir, DirOf(<<<<Good2530, Good1230>>>>),
   DirOf(<<<<Ln(RawRow(TBadHour))>>>>)}

Edited == {"PHA"}

\* the regions argument of get_list: None, or a list of codes
ArgNone == [all |-> TRUE, list |-> <<>>]
ArgList(q) == [all |-> FALSE, list |-> q]
Args ==
  {ArgNone, ArgList(<<>>), ArgList(<<"PHA">>), ArgList(<<"STC">>),
   ArgList(<<"XXX">>), ArgList(<<"PHA", "STC">>),
   ArgList(<<"STC", "XXX", "STC">>), ArgList(<<"PHA", "XXX", "STC", "PHA">>)}

\* the year and the content of the file the archive holds for a region
RemoteYear == 1
RemoteFile == <<Good1230>>

\* load_files tabulated (evaluated once) on the file lists that occur
\* under Spec
TableFiles ==
  {<<RemoteFile>>} \cup
  {<<d.files[1]>> : d \in {x \in SourceChoices : x.files # <<>>}}

LoadTable ==
  LET f == [k \in Known \X TableFiles \X Garbage |->
             load_files(k[1], k[2], k[3])]
  IN  IF f = <<>> THEN <<>> ELSE f

LoadFiles(region, files, g) ==
  IF <<region, files, g>> \in DOMAIN LoadTable
  THEN LoadTable[<<region, files, g>>]
  ELSE load_files(region, files, g)

(***************************************************************************)
(* The file system under self.folder and the archive source.               *)
(* A region directory is [exists, files]; files maps a year to the file    *)
(* <year>.csv.                                                             *)
(***************************************************************************)
\* the listing page cannot be fetched / lists no archive / lists an
\* archive with a file for every region
NetDown == [up |-> FALSE, regions |-> {}]
NetNoLinks == [up |-> TRUE, regions |-> {}]
NetFull == [up |-> TRUE, regions |-> Known]
Nets == {NetDown, NetNoLinks, NetFull}

\* download_data: raises when the page cannot be fetched; else writes
\* <region>/<year>.csv for every region file of the archive
download_data(fsys, net) ==
  IF ~net.up THEN [ok |-> FALSE, fs |-> fsys]
  ELSE [ok |-> TRUE,
        fs |-> [r \in DOMAIN fsys |->
                 IF r \in net.regions
                 THEN [exists |-> TRUE,
                       files |-> [y \in DOMAIN fsys[r].files \cup {RemoteYear} |->
                                   IF y = RemoteYear THEN RemoteFile
                                   ELSE fsys[r].files[y]]]
                 ELSE fsys[r]]]

\* os.listdir: the years of the directory in the order perm ranks them
\* (the order is arbitrary)
listdir(files, perm) ==
  LET ys == DOMAIN files
      n == Cardinality(ys)
  IN  IF n = 0 THEN <<>>
      ELSE CHOOSE q \in [1..n -> ys] :
             \A i, j \in 1..n : i < j => perm[q[i]] < perm[q[j]]

ParseRaised(fsys, n) ==
  [ok |-> FALSE, fs |-> fsys, arrays |-> <<>>, lines |-> 0, line |-> 0,
   fetched |-> n, files |-> <<>>]

\* parse_region_data(region): [ok, fs, arrays, lines, line, fetched, files]
\* where fs is the file system it leaves, lines the sizing pass's count,
\* line the row counter at the end, fetched the calls of download_data and
\* files the files read, in the order os.listdir gave
parse_region_data(fsys, net, region, perm, g) ==
  LET missing == ~fsys[region].exists
      n1 == IF missing THEN 1 ELSE 0
  IN  Once(IF missing THEN download_data(fsys, net)
           ELSE [ok |-> TRUE, fs |-> fsys],
        LAMBDA d1 :
          IF ~d1.ok \/ ~d1.fs[region].exists THEN ParseRaised(d1.fs, n1)
          ELSE
            LET nofiles == listdir(d1.fs[region].files, perm) = <<>>
                n2 == IF nofiles THEN n1 + 1 ELSE n1
            IN  Once(IF nofiles THEN download_data(d1.fs, net) ELSE d1,
                  LAMBDA d2 :
                    IF ~d2.ok THEN ParseRaised(d2.fs, n2)
                    ELSE
                      LET data_files == listdir(d2.fs[region].files, perm)
                      IN  Once([i \in 1..Len(data_files) |->
                                 d2.fs[region].files[data_files[i]]],
                            LAMBDA files :
                              Once(LoadFiles(region, files, g),
                                LAMBDA ld :
                                  IF ~ld.ok THEN ParseRaised(d2.fs, n2)
                                  ELSE [ok |-> TRUE, fs |-> d2.fs,
                                        arrays |-> ld.arrays,
                                        lines |-> ld.lines, line |-> ld.line,
                                        fetched |-> n2, files |-> files]))))

(***************************************************************************)
(* get_list: the in-memory slots, the snapshots, the aggregation.          *)
(***************************************************************************)
\* a Python object is [id, headers, cols]; id tells apart the objects of
\* one process: <<region, n>> is the n-th tuple put in the region's slot,
\* <<"built", 0>> a tuple a call has just built
NoData == [id |-> <<"none", 0>>, headers |-> <<>>, cols |-> <<>>]
None == [some |-> FALSE, obj |-> NoData]
Some(obj) == [some |-> TRUE, obj |-> obj]

\* a snapshot file: absent, cut short by a failed write, or whole
NoFile == [state |-> "none", bytes |-> <<>>]
CutFile == [state |-> "cut", bytes |-> <<>>]

\* pickle.dump of a (headers, arrays) tuple through gzip: the items of the
\* list of headers, then for every array its dtype, its shape and its cells
pickle_dump(obj) ==
  << obj.headers,
     [c \in 1..Len(obj.cols) |->
       [dtype |-> data_types[c], shape |-> Len(obj.cols[c]),
        data |-> obj.cols[c]]] >>

\* a load that rebuilds every array one cell short of its shape
pickle_load_short(bytes, id) ==
  [id |-> id, headers |-> bytes[1],
   cols |-> [c \in 1..Len(bytes[2]) |->
              [i \in 1..(bytes[2][c].shape - 1) |-> bytes[2][c].data[i]]]]

\* pickle.load: a new tuple, every array rebuilt with its shape from its
\* cells
pickle_load(bytes, id) ==
  [id |-> id, headers |-> bytes[1],
   cols |-> [c \in 1..Len(bytes[2]) |->
              [i \in 1..bytes[2][c].shape |-> bytes[2][c].data[i]]]]

\* outcomes of gzip.open(path, 'wb') with pickle.dump: written; open
\* raises (no file); dump or close raises (a cut file stays)
WriteModes == {"ok", "noopen", "cut"}

\* the identity of the next tuple put in a slot
NewId(slot, region) ==
  <<region, IF slot.some THEN slot.obj.id[2] + 1 ELSE 1>>

\* a slot test that never finds the slot filled
SlotNeverFilled(cache, region) == FALSE

\* a snapshot test that never finds the file
SnapshotNeverExists(dsk, region) == FALSE

\* a snapshot test that takes a file cut short for no file
SnapshotWhole(dsk, region) == dsk[region].state = "whole"

\* self.cache_data[region] == None is false
SlotFilled(cache, region) == cache[region].some

\* os.path.isfile(cache_file_path)
SnapshotExists(dsk, region) == dsk[region].state # "none"

\* one iteration of "for region in regions"; st is [ok, fs, disk, cache,
\* log]; env is [net, wmode, perm, g]
ResolveRegion(st, region, env) ==
  IF SlotFilled(st.cache, region)
  THEN [st EXCEPT !.log = Append(@, <<"mem", region>>)]
  ELSE IF SnapshotExists(st.disk, region)
  THEN IF st.disk[region].state # "whole"
       THEN [st EXCEPT !.ok = FALSE,
                       !.log = Append(@, <<"read", region>>)]
       ELSE [st EXCEPT !.cache[region] =
                          Some(pickle_load(st.disk[region].bytes,
                                           NewId(st.cache[region], region))),
                       !.log = Append(@, <<"read", region>>)]
  ELSE
    Once(parse_region_data(st.fs, env.net, region, env.perm, env.g),
      LAMBDA p :
        LET data == [id |-> NewId(st.cache[region], region),
                     headers |-> headers, cols |-> p.arrays]
            s1 == [st EXCEPT !.fs = p.fs,
                             !.log = Append(@, <<"parse", region>>)]
        IN  IF ~p.ok THEN [s1 EXCEPT !.ok = FALSE]
            ELSE IF env.wmode = "noopen" THEN [s1 EXCEPT !.ok = FALSE]
            ELSE IF env.wmode = "cut"
            THEN [s1 EXCEPT !.ok = FALSE, !.disk[region] = CutFile,
                            !.log = Append(@, <<"write", region>>)]
            ELSE [s1 EXCEPT !.disk[region] =
                               [state |-> "whole",
                                bytes |-> pickle_dump(data)],
                            !.cache[region] = Some(data),
                            !.log = Append(Append(@, <<"write", region>>),
                                           <<"store", region>>)])

RECURSIVE ResolveAll(_, _, _)
ResolveAll(st, regions, env) ==
  IF regions = <<>> \/ ~st.ok THEN st
  ELSE Once(ResolveRegion(st, regions[1], env),
            LAMBDA s : ResolveAll(s, Tail(regions), env))

\* the columns joined in the reverse of the order of regions
RECURSIVE ConcatReversed(_, _, _)
ConcatReversed(cache, regions, i) ==
  IF regions = <<>> THEN <<>>
  ELSE ConcatReversed(cache, Tail(regions), i) \o
       cache[regions[1]].obj.cols[i]

\* np.concatenate of column i of every region, in the order of regions
RECURSIVE Concat(_, _, _)
Concat(cache, regions, i) ==
  IF regions = <<>> THEN <<>>
  ELSE cache[regions[1]].obj.cols[i] \o Concat(cache, Tail(regions), i)

Raised == [raised |-> TRUE, obj |-> NoData]
Returned(obj) == [raised |-> FALSE, obj |-> obj]

\* what get_list returns after the loop: the slot's own tuple for one
\* region, else a new tuple of concatenated columns (np.concatenate of an
\* empty list raises)
Aggregate(cache, regions) ==
  IF Len(regions) = 1 THEN Returned(cache[regions[1]].obj)
  ELSE IF regions = <<>> THEN Raised
  ELSE Returned([id |-> <<"built", 0>>, headers |-> headers,
                 cols |-> [i \in 1..Len(headers) |->
                            Concat(cache, regions, i)]])

\* list(set(regions) & set(all_regions)): the orders the list may have
Orders(S) ==
  {q \in [1..Cardinality(S) -> S] :
     \A i, j \in 1..Cardinality(S) : i # j => q[i] # q[j]}

Elems(q) == {q[i] : i \in 1..Len(q)}

\* get_list with the region list already made: [st, ret]
get_list(st0, regions, env) ==
  Once(ResolveAll(st0, regions, env),
    LAMBDA st :
      [st |-> st,
       ret |-> IF st.ok THEN Aggregate(st.cache, regions) ELSE Raised])

(***************************************************************************)
(* The state machine.                                                      *)
(***************************************************************************)
VARIABLES
  fs,          \* region -> directory of source files
  disk,        \* region -> snapshot file
  cache_data,  \* region -> in-memory slot of the running process
  pc,          \* "idle"; "returned" / "parsed" when a call of get_list /
               \* parse_region_data has just ended
  call,        \* the call that has just ended
  presult      \* what a direct call of parse_region_data returned

vars == <<fs, disk, cache_data, pc, call, presult>>

\* a call that has ended: its argument, the list it worked on, what it did
\* in order, whether the loop ended without an exception, what it returned,
\* and the slots and snapshots it found
NoCall ==
  [arg |-> ArgNone, regions |-> <<>>, log |-> <<>>, ok |-> FALSE,
   ret |-> Raised, slots |-> [r \in Known |-> None],
   files |-> [r \in Known |-> NoFile]]

NoParse == ParseRaised([r \in Known |-> NoDir], 0)

Init ==
  /\ fs = [r \in Known |-> NoDir]
  /\ disk = [r \in Known |-> NoFile]
  /\ cache_data = [r \in Known |-> None]
  /\ pc = "idle"
  /\ call = NoCall
  /\ presult = NoParse

\* the list get_list works on: all_regions, or the distinct known codes of
\* the argument in some order
RegionLists(arg) ==
  IF arg.all THEN {all_regions} ELSE Orders(Elems(arg.list) \cap Known)

\* a whole call of get_list(arg)
GetList(arg, regions, env) ==
  /\ pc = "idle"
  /\ \E r \in {get_list([ok |-> TRUE, fs |-> fs, disk |-> disk,
                          cache |-> cache_data, log |-> <<>>], regions, env)} :
         /\ fs' = r.st.fs
         /\ disk' = r.st.disk
         /\ cache_data' = r.st.cache
         /\ call' = [arg |-> arg, regions |-> regions, log |-> r.st.log,
                     ok |-> r.st.ok, ret |-> r.ret, slots |-> cache_data,
                     files |-> disk]
  /\ pc' = "returned"
  /\ UNCHANGED presult

\* the caller takes the result (or the exception)
Return ==
  /\ pc \in {"returned", "parsed"}
  /\ pc' = "idle"
  /\ call' = NoCall
  /\ presult' = NoParse
  /\ UNCHANGED <<fs, disk, cache_data>>

\* the source files of a region change between calls
EditSource(r, d) ==
  /\ pc = "idle"
  /\ fs[r] # d
  /\ fs' = [fs EXCEPT ![r] = d]
  /\ UNCHANGED <<disk, cache_data, pc, call, presult>>

\* the process ends and a new one constructs a DataDownloader
Restart ==
  /\ pc = "idle"
  /\ \E r \in Known : cache_data[r].some
  /\ cache_data' = [r \in Known |-> None]
  /\ UNCHANGED <<fs, disk, pc, call, presult>>

\* a direct call of parse_region_data(region)
ParseRegion(region, net, perm, g) ==
  /\ pc = "idle"
  /\ \E p \in {parse_region_data(fs, net, region, perm, g)} :
         /\ presult' = p
         /\ fs' = p.fs
  /\ pc' = "parsed"
  /\ UNCHANGED <<disk, cache_data, call>>

\* the directories of SourceChoices and of the archive hold one file, so
\* os.listdir has one order under Spec
IdPerm == [y \in Years |-> y]

Envs ==
  {[net |-> n, wmode |-> w, perm |-> IdPerm, g |-> g] :
     n \in Nets, w \in WriteModes, g \in Garbage}

\* the environment a call can observe: the archive source and the outcome
\* of a snapshot write are met only by a call that parses some region
EnvsFor(regions) ==
  IF \E i \in 1..Len(regions) :
       ~cache_data[regions[i]].some /\ disk[regions[i]].state = "none"
  THEN Envs
  ELSE {[net |-> NetDown, wmode |-> "ok", perm |-> IdPerm, g |-> 0]}

Next ==
  \/ \E arg \in Args : \E regions \in RegionLists(arg) :
       \E env \in EnvsFor(regions) : GetList(arg, regions, env)
  \/ Return
  \/ \E r \in Edited : \E d \in SourceChoices : EditSource(r, d)
  \/ Restart

Spec == Init /\ [][Next]_vars

\* the loader alone, on every directory of DirPool
InitParse ==
  /\ \E d \in DirPool : fs = [r \in Known |-> IF r = "PHA" THEN d ELSE NoDir]
  /\ disk = [r \in Known |-> NoFile]
  /\ cache_data = [r \in Known |-> None]
  /\ pc = "idle"
  /\ call = NoCall
  /\ presult = NoParse

\* the archive source is met only when the directory is absent or empty,
\* and os.listdir has more than one order only for two files or more
NetsFor(d) == IF d.exists /\ d.files # <<>> THEN {NetDown} ELSE Nets
PermsFor(d) ==
  IF Cardinality(DOMAIN d.files) > 1 THEN Permutations(Years) ELSE {IdPerm}

NextParse ==
  \E net \in NetsFor(fs["PHA"]) : \E perm \in PermsFor(fs["PHA"]) :
    \E g \in Garbage : ParseRegion("PHA", net, perm, g)

SpecParse == InitParse /\ [][NextParse]_vars

(***************************************************************************)
(* Properties of get_list (checked under Spec).                            *)
(***************************************************************************)
\* the cells of the arrays a snapshot holds
StoredCols(bytes) == [c \in 1..Len(bytes[2]) |-> bytes[2][c].data]

\* what a call did for region r, in order
EventsOf(log, r) ==
  LET sel == SelectSeq(log, LAMBDA e : e[2] = r)
  IN  [i \in 1..Len(sel) |-> sel[i][1]]

\* the position of the first event of region r in log
FirstEvent(log, r) ==
  CHOOSE i \in 1..Len(log) :
    log[i][2] = r /\ \A j \in 1..(i - 1) : log[j][2] # r

\* C1: every region a call of get_list resolves is resolved in this order:
\* a slot already filled is used and nothing else is done for the region;
\* else an existing snapshot is deserialized into the slot and the region is
\* not parsed; else the region is parsed, and the slot is filled only after
\* the snapshot has been written.  A call that ends without an exception has
\* resolved every region of its list.
C1_ResolutionOrder ==
  pc = "returned" =>
    \A r \in Known :
      LET k == EventsOf(call.log, r)
      IN  /\ r \notin Elems(call.regions) => k = <<>>
          /\ (call.ok /\ r \in Elems(call.regions)) => k # <<>>
          /\ k # <<>> =>
               IF call.slots[r].some
               THEN /\ k = <<"mem">>
                    /\ cache_data[r] = call.slots[r]
                    /\ disk[r] = call.files[r]
               ELSE IF call.files[r].state # "none"
               THEN /\ k = <<"read">>
                    /\ disk[r] = call.files[r]
                    /\ cache_data[r].some =>
                         /\ cache_data[r].obj.headers = call.files[r].bytes[1]
                         /\ cache_data[r].obj.cols =
                              StoredCols(call.files[r].bytes)
               ELSE /\ k \in {<<"parse">>, <<"parse", "write">>,
                              <<"parse", "write", "store">>}
                    /\ cache_data[r].some <=> k = <<"parse", "write", "store">>
                    /\ cache_data[r].some =>
                         /\ disk[r].state = "whole"
                         /\ disk[r].bytes[1] = cache_data[r].obj.headers
                         /\ StoredCols(disk[r].bytes) =
                              cache_data[r].obj.cols

\* one call that meets the three cases: PHA in its slot, STC in a snapshot
\* only, JHC in neither
C1_Witness ==
  /\ pc = "returned"
  /\ call.arg.all
  /\ call.ok
  /\ EventsOf(call.log, "PHA") = <<"mem">>
  /\ EventsOf(call.log, "STC") = <<"read">>
  /\ EventsOf(call.log, "JHC") = <<"parse", "write", "store">>

\* C2: once the snapshot file of a region exists, no step changes it, and no
\* call of get_list parses the region or writes its snapshot, whatever has
\* happened to the region's source files and to the process in between.
C2_WriteOnce ==
  [][\A r \in Known :
       disk[r].state # "none" =>
         /\ disk'[r] = disk[r]
         /\ pc' = "returned" =>
              \A i \in 1..Len(call'.log) :
                call'.log[i][2] = r => call'.log[i][1] \in {"mem", "read"}]_vars

\* a later process reads the snapshot made from the one-row file although
\* the source directory now holds the two-row file
C2_Witness ==
  /\ pc = "returned"
  /\ call.ok
  /\ call.log = << <<"read", "PHA">> >>
  /\ fs["PHA"] = DirOf(<< <<Good2530, Good1230>> >>)
  /\ disk["PHA"].state = "whole"
  /\ Len(cache_data["PHA"].obj.cols[1]) = 1

\* C3: a call of get_list for the one region r that returns, returns the
\* object in r's slot; when the slot was filled before the call (by an
\* earlier successful call of this process) that is the same object, and the
\* call has neither parsed nor read nor written anything.
C3_Idempotence ==
  pc = "returned" =>
    \A r \in Known :
      (call.regions = <<r>> /\ ~call.ret.raised) =>
        /\ cache_data[r].some
        /\ call.ret.obj = cache_data[r].obj
        /\ call.slots[r].some =>
             /\ call.ret.obj = call.slots[r].obj
             /\ call.log = << <<"mem", r>> >>
             /\ disk = call.files

\* a second call for PHA in the same process
C3_Witness ==
  /\ pc = "returned"
  /\ call.regions = <<"PHA">>
  /\ call.slots["PHA"].some
  /\ ~call.ret.raised
  /\ call.ret.obj.id = <<"PHA", 1>>
  /\ call.ret.obj = call.slots["PHA"].obj

\* C4: for a list of codes, get_list resolves exactly the distinct known
\* codes of the list, and a list that holds unknown codes does not make the
\* call raise: when every region was resolved without an exception the call
\* returns, and the rows returned are those of the known codes.
C4_UnknownCodesDropped ==
  (pc = "returned" /\ ~call.arg.all) =>
    /\ Elems(call.regions) = Elems(call.arg.list) \cap Known
    /\ Len(call.regions) = Cardinality(Elems(call.regions))
    /\ (call.ok /\ \E i \in 1..Len(call.arg.list) :
                     call.arg.list[i] \notin Known) =>
         /\ ~call.ret.raised
         /\ \A j \in 1..Len(call.ret.obj.cols[1]) :
              \E r \in Elems(call.regions) :
                call.ret.obj.cols[1][j] = RegionText(r)

\* C5: when get_list parses a region whose directory is still missing or
\* still without files after the fetch, the call raises, and the region gets
\* neither a filled slot nor a snapshot.
C5_EmptySourceFails ==
  pc = "returned" =>
    \A r \in Known :
      (EventsOf(call.log, r) # <<>> /\ EventsOf(call.log, r)[1] = "parse"
         /\ (~fs[r].exists \/ fs[r].files = <<>>)) =>
        /\ call.ret.raised
        /\ ~cache_data[r].some
        /\ disk[r].state = "none"

\* C11: when a call of get_list fails while it resolves a region r that had
\* neither a filled slot nor a snapshot (the fetch, the sizing pass, the
\* decode pass or the write of the snapshot raises), the call raises, r's
\* slot stays empty and no snapshot file of r is left, so that a later call
\* parses r again.
C11_NoPartialCacheState ==
  pc = "returned" =>
    \A r \in Known :
      (~call.ok /\ call.log # <<>> /\ call.log[Len(call.log)][2] = r
         /\ EventsOf(call.log, r)[1] = "parse") =>
        /\ call.ret.raised
        /\ ~cache_data[r].some
        /\ disk[r].state = "none"

\* C12: in every state reached by calls of get_list (and by edits of the
\* source files and restarts of the process, which leave the snapshots
\* alone), a filled slot of a region has a whole snapshot beside it that
\* holds the slot's headers and, array by array, the dtype, the length and
\* the cells of the slot's columns; loading that snapshot gives the slot's
\* (headers, columns) again.
C12_TiersConsistent ==
  \A r \in Known :
    cache_data[r].some =>
      LET obj == cache_data[r].obj
          bytes == disk[r].bytes
      IN  /\ disk[r].state = "whole"
          /\ bytes[1] = obj.headers
          /\ Len(bytes[2]) = Len(obj.cols)
          /\ \A c \in 1..Len(obj.cols) :
               /\ bytes[2][c].dtype = data_types[c]
               /\ bytes[2][c].shape = Len(obj.cols[c])
               /\ bytes[2][c].data = obj.cols[c]
          /\ pickle_load(bytes, obj.id) = obj
          /\ pickle_load(pickle_dump(obj), obj.id) = obj

\* a later process has loaded the two-row dataset of PHA from the snapshot
\* an earlier process wrote from its parse
C12_Witness ==
  /\ pc = "returned"
  /\ call.ok
  /\ call.log = << <<"read", "PHA">> >>
  /\ cache_data["PHA"].some
  /\ cache_data["PHA"].obj.cols[2] = <<-1, 12>>
  /\ StoredCols(disk["PHA"].bytes)[2] = <<-1, 12>>
  /\ Len(cache_data["PHA"].obj.cols) = NCols

\* the rows of the regions before the k-th in column i
RECURSIVE RowsBefore(_, _, _, _)
RowsBefore(cache, regions, k, i) ==
  IF k = 1 THEN 0
  ELSE RowsBefore(cache, regions, k - 1, i) +
       Len(cache[regions[k - 1]].obj.cols[i])

\* C8: when get_list returns for two regions or more, every column of the
\* result holds, for each region in the order the call resolved them, the
\* rows of that region's column, in their order, after the rows of the
\* regions resolved before it; its length is the sum of the lengths.
C8_Aggregation ==
  (pc = "returned" /\ Len(call.regions) >= 2 /\ ~call.ret.raised) =>
    LET n == Len(call.regions)
    IN  /\ \A k \in 1..(n - 1) :
             FirstEvent(call.log, call.regions[k]) <
               FirstEvent(call.log, call.regions[k + 1])
        /\ call.ret.obj.headers = headers
        /\ Len(call.ret.obj.cols) = Len(headers)
        /\ \A i \in 1..Len(headers) :
             LET out == call.ret.obj.cols[i]
             IN  /\ Len(out) =
                      RowsBefore(cache_data, call.regions, n, i) +
                      Len(cache_data[call.regions[n]].obj.cols[i])
                 /\ \A k \in 1..n :
                      LET col == cache_data[call.regions[k]].obj.cols[i]
                          off == RowsBefore(cache_data, call.regions, k, i)
                      IN  \A j \in 1..Len(col) : out[off + j] = col[j]

\* STC (one row) resolved before PHA (two rows): three rows, STC's first
C8_Witness ==
  /\ pc = "returned"
  /\ call.regions = <<"STC", "PHA">>
  /\ ~call.ret.raised
  /\ call.ret.obj.cols[1] =
       << <<"S", "T", "C">>, <<"P", "H", "A">>, <<"P", "H", "A">> >>
  /\ call.ret.obj.cols[2] = <<12, -1, 12>>
  /\ call.ret.obj.cols[3] = <<30, 30, 30>>

(***************************************************************************)
(* Properties of parse_region_data (checked under SpecParse).              *)
(***************************************************************************)
\* the records of the files, in order
RECURSIVE AllRecords(_)
AllRecords(files) ==
  IF files = <<>> THEN <<>>
  ELSE csv_reader(files[1]) \o AllRecords(Tail(files))

\* the lines of the files of a directory
LinesOf(d) ==
  UNION {{d.files[y][i] : i \in 1..Len(d.files[y])} : y \in DOMAIN d.files}

TwoDigits(s) == Len(s) = 2 /\ s[1] \in DigitChars /\ s[2] \in DigitChars
ValueOf(s) == 10 * DigitVal(s[1]) + DigitVal(s[2])

\* a directory of files that can be read, every line of which is one record
\* of n fields with a time field of four digits
LinesHave(d, n) ==
  /\ d.exists
  /\ DOMAIN d.files # {}
  /\ \A y \in DOMAIN d.files : d.files[y] # <<>> /\ Readable(d.files[y])
  /\ \A l \in LinesOf(d) :
       /\ ~l.open
       /\ Len(l.fields) = n
       /\ Len(l.fields[6]) = 4
       /\ TwoDigits(SubSeq(l.fields[6], 1, 2))
       /\ TwoDigits(SubSeq(l.fields[6], 3, 4))

\* C6: in a dataset parse_region_data returns, every column has the same
\* length, the number of records decoded over all files of the region, and
\* the row counter ends at the length the sizing pass counted.
C6_ColumnsMatchRows ==
  (pc = "parsed" /\ presult.ok) =>
    /\ presult.line = presult.lines
    /\ presult.line = Len(AllRecords(presult.files))
    /\ \A c \in 1..NCols : Len(presult.arrays[c]) = presult.line

\* C7: a field that cannot be coerced, the time field included, never makes
\* parse_region_data fail: a directory of readable files whose lines are
\* records with a field for every column is parsed.
C7_BadCellNeverAborts ==
  (pc = "parsed" /\ fs["PHA"].exists /\ DOMAIN fs["PHA"].files # {}
     /\ (\A y \in DOMAIN fs["PHA"].files : Readable(fs["PHA"].files[y]))
     /\ \A l \in LinesOf(fs["PHA"]) : ~l.open /\ Len(l.fields) = NRaw) =>
    presult.ok

\* C9: for every record decoded whose time field has a two-digit hour part
\* and a two-digit minute part, the hour cell is -1 when the hour part is
\* "25" and its value otherwise, and the minute cell is -1 when the minute
\* part is "60" and its value otherwise, each whatever the other part is.
C9_TimeRule ==
  (pc = "parsed" /\ presult.ok) =>
    LET recs == AllRecords(presult.files)
    IN  \A i \in 1..Len(recs) :
          LET hh == SubSeq(recs[i][6], 1, 2)
              mm == SubSeq(recs[i][6], 3, Len(recs[i][6]))
          IN  (TwoDigits(hh) /\ TwoDigits(mm)) =>
                /\ presult.arrays[2][i] =
                     IF hh = <<"2", "5">> THEN -1 ELSE ValueOf(hh)
                /\ presult.arrays[3][i] =
                     IF mm = <<"6", "0">> THEN -1 ELSE ValueOf(mm)

\* time "2530" gives hour -1 and minute 30, and time "1260" gives hour 12
\* and minute -1
C9_Witness ==
  /\ pc = "parsed"
  /\ presult.ok
  /\ presult.line = 2
  /\ \E i, j \in 1..2 :
       LET recs == AllRecords(presult.files)
       IN  /\ recs[i][6] = T2530
           /\ presult.arrays[2][i] = -1
           /\ presult.arrays[3][i] = 30
           /\ recs[j][6] = T1260
           /\ presult.arrays[2][j] = 12
           /\ presult.arrays[3][j] = -1

\* every row of the dataset holds the region, and each field of its record
\* but the time field in the column that follows the field's position
RowsDecoded(region) ==
  LET recs == AllRecords(presult.files)
  IN  /\ presult.ok
      /\ presult.line = Len(recs)
      /\ Len(recs) = Cardinality({<<y, i>> \in (DOMAIN fs[region].files) \X
                                    (1..MaxLines) :
                                    i <= Len(fs[region].files[y])})
      /\ Len(presult.arrays) = NCols
      /\ \A c \in 1..NCols : Len(presult.arrays[c]) = Len(recs)
      /\ \A i \in 1..Len(recs) :
           /\ presult.arrays[1][i] = RegionText(region)
           /\ \A j \in (1..Len(recs[i])) \ {6} :
                /\ ColOf(j) \in 4..NCols
                /\ presult.arrays[ColOf(j)][i] =
                     StoreCell(data_types[ColOf(j)], recs[i][j])

\* C10 as stated: files whose lines have 65 fields each are decoded, one row
\* per line, every field but the time field in a column of the schema.
C10_Fields65 ==
  (pc = "parsed" /\ LinesHave(fs["PHA"], 65)) => RowsDecoded("PHA")

\* C10: files whose lines have 64 fields each (one for the time and one for
\* each column from 3 on) are decoded, one row per line, every field but the
\* time field in a column of the schema: the fields before the time field
\* in the columns from 3 on, the fields after it in the columns that follow.
C10_Fields64 ==
  (pc = "parsed" /\ LinesHave(fs["PHA"], 64)) => RowsDecoded("PHA")

\* one file of three lines, one of them with time "2530": three rows
C10_Witness ==
  /\ pc = "parsed"
  /\ fs["PHA"] = DirOf(<< <<Good1230, Good2530, Good1230>> >>)
  /\ LinesHave(fs["PHA"], 64)
  /\ presult.ok
  /\ presult.line = 3
  /\ \A c \in 1..NCols : Len(presult.arrays[c]) = 3
  /\ presult.arrays[2] = <<12, -1, 12>>

====
